---- MODULE Spec2Model ----
(***************************************************************************)
(* pandas_query.py: one SQL query over the table CO_HW (home locations     *)
(* LEFT JOIN work locations on (uid, year), filtered, ordered, limited),    *)
(* submitted once through pandas_gbq.read_gbq, then list(df.columns).       *)
(*                                                                         *)
(* A relation is a sequence of rows (a multiset in some physical order).   *)
(* Coordinates are floats in the warehouse; here they are small integers.  *)
(* SQL NULL is the value NULL, which no SQL comparison finds equal to       *)
(* anything and which ORDER BY ... ASC places first.                        *)
(***************************************************************************)
EXTENDS Integers, Sequences, FiniteSets, TLC

VARIABLES table,     \* rows of `job-accessibility.lbs_latam.CO_HW`
          pc,        \* position of the script: "read", "columns", "done", "failed"
          df,        \* the DataFrame read_gbq returned, or NoTable
          listing,   \* the value of list(df.columns), or NoListing
          submitted, \* number of queries sent to the warehouse
          error      \* the exception that ended the script, or "none"

vars == <<table, pc, df, listing, submitted, error>>

----------------------------------------------------------------------------
(* Values *)

NULL == -1

UidValues == {1, 2}
YearValues == {2019, 2020}

\* At most MaxRows rows in a source table of specification Spec.
MaxRows == 4

LIMIT == 1000

SourceRow(u, y, lat, lon, t) ==
    [uid |-> u, year |-> y, cluster_latitude |-> lat,
     cluster_longitude |-> lon, location_type |-> t]

----------------------------------------------------------------------------
(* SQL expressions *)

\* Mutant: NULL = NULL taken as TRUE.
SqlEqNullSafe(a, b) == a = b

\* a = b in a WHERE or ON clause: TRUE only for two equal non-null values.
SqlEq(a, b) == a # NULL /\ b # NULL /\ a = b

IsNotNull(a) == a # NULL

----------------------------------------------------------------------------
(* The two common table expressions *)

\* Mutant: SELECT without DISTINCT.
DistinctRowsKeepAll(rows) == rows

\* SELECT DISTINCT: every row once, the first of its copies (two NULLs count
\* as the same value here).
DistinctRows(rows) ==
    LET numbered == [i \in 1..Len(rows) |-> [pos |-> i, row |-> rows[i]]]
        firsts == SelectSeq(numbered,
                            LAMBDA e : \A j \in 1..(e.pos - 1) : rows[j] # e.row)
    IN [k \in 1..Len(firsts) |-> firsts[k].row]

\* FROM CO_HW WHERE location_type = ty.  location_type is a string; a row
\* whose location_type is NULL fails the test like one of any other type.
FromWhereType(t, ty) == SelectSeq(t, LAMBDA r : r.location_type = ty)

HomeSelectList(r) ==
    [uid |-> r.uid, year |-> r.year,
     home_latitude |-> r.cluster_latitude, home_longitude |-> r.cluster_longitude]

WorkSelectList(r) ==
    [uid |-> r.uid, year |-> r.year,
     work_latitude |-> r.cluster_latitude, work_longitude |-> r.cluster_longitude]

home_locations(t) ==
    LET src == FromWhereType(t, "H")
    IN DistinctRows([i \in 1..Len(src) |-> HomeSelectList(src[i])])

work_locations(t) ==
    LET src == FromWhereType(t, "W")
    IN DistinctRows([i \in 1..Len(src) |-> WorkSelectList(src[i])])

----------------------------------------------------------------------------
(* The join, the filter and the select list *)

NullWork == [uid |-> NULL, year |-> NULL, work_latitude |-> NULL, work_longitude |-> NULL]

\* Mutant: the join condition without h.year = w.year.
JoinOnUidOnly(h, w) == SqlEq(h.uid, w.uid)

JoinOn(h, w) == SqlEq(h.uid, w.uid) /\ SqlEq(h.year, w.year)

\* Mutant: a join that keeps one w for each h, the first that matches.
LeftJoinFirstMatch(H, W) ==
    [n \in 1..Len(H) |->
        LET m == SelectSeq(W, LAMBDA w : SqlEq(H[n].uid, w.uid) /\ SqlEq(H[n].year, w.year))
        IN [h |-> H[n], w |-> IF m = <<>> THEN NullWork ELSE m[1]]]

\* H LEFT JOIN W ON ...: every pair (h, w) that satisfies the ON condition,
\* and every h that no w matches, with an all-NULL w.  Pair number n of the
\* scan is H[i] with W[k]; k = 0 stands for the all-NULL w.
LeftJoin(H, W) ==
    LET width == Len(W) + 1
        scan == [n \in 1..(Len(H) * width) |->
                    LET i == ((n - 1) \div width) + 1
                        k == (n - 1) % width
                    IN [h |-> H[i], w |-> IF k = 0 THEN NullWork ELSE W[k], k |-> k]]
        kept == SelectSeq(scan,
                    LAMBDA p : IF p.k = 0
                               THEN \A m \in 1..Len(W) : ~JoinOn(p.h, W[m])
                               ELSE JoinOn(p.h, p.w))
    IN [n \in 1..Len(kept) |-> [h |-> kept[n].h, w |-> kept[n].w]]

\* Mutant: the filter without h.home_latitude IS NOT NULL.
WherePredicateNoHomeLatitude(j) ==
    IsNotNull(j.h.uid) /\ IsNotNull(j.w.work_latitude)

\* Mutant: the filter without w.work_latitude IS NOT NULL.
WherePredicateNoWorkLatitude(j) ==
    IsNotNull(j.h.uid) /\ IsNotNull(j.h.home_latitude)

WherePredicate(j) ==
    /\ IsNotNull(j.h.uid)
    /\ IsNotNull(j.h.home_latitude)
    /\ IsNotNull(j.w.work_latitude)

Where(J) == SelectSeq(J, WherePredicate)

ColumnNames ==
    <<"uid", "home_latitude", "home_longitude", "work_latitude", "work_longitude", "year">>

\* Mutant: the work columns selected before the home columns.
SelectListWorkFirst(j) ==
    <<j.h.uid, j.w.work_latitude, j.w.work_longitude,
      j.h.home_latitude, j.h.home_longitude, j.h.year>>

SelectList(j) ==
    <<j.h.uid, j.h.home_latitude, j.h.home_longitude,
      j.w.work_latitude, j.w.work_longitude, j.h.year>>

Select(J) == [i \in 1..Len(J) |-> SelectList(J[i])]

\* The rows that survive the filter, before ORDER BY and LIMIT.
Surviving(t) == Select(Where(LeftJoin(home_locations(t), work_locations(t))))

----------------------------------------------------------------------------
(* ORDER BY and LIMIT *)

\* ORDER BY h.uid, h.year: columns 1 and 6 of the select list, ascending.
OrderByKeys == << [col |-> 1, asc |-> TRUE], [col |-> 6, asc |-> TRUE] >>

\* The query names no order among rows with equal (uid, year); the engine
\* returns them in an order of its own.  That order is modelled as a further
\* ordering on the remaining columns, chosen by the engine.
TieBreaks ==
    { [i \in 1..4 |-> [col |-> cols[i], asc |-> a]] :
        cols \in { <<2, 3, 4, 5>>, <<4, 5, 2, 3>> }, a \in BOOLEAN }

Least(vals) == CHOOSE v \in vals : \A u \in vals : v <= u
Greatest(vals) == CHOOSE v \in vals : \A u \in vals : u <= v

\* Mutant: no ORDER BY.
OrderByNothing(rows, keys) == rows

RECURSIVE OrderBy(_, _)
\* rows ordered by keys[1], rows equal on it by keys[2], and so on; NULL
\* (the least value) comes first in ascending order.  Rows are split around
\* the middle of the values of the first key until all agree on it.
OrderBy(rows, keys) ==
    IF keys = <<>> \/ Len(rows) <= 1 THEN rows
    ELSE LET k == keys[1]
             vals == {rows[i][k.col] : i \in 1..Len(rows)}
             lo == Least(vals)
             hi == Greatest(vals)
             mid == (lo + hi) \div 2
         IN IF lo = hi THEN OrderBy(rows, Tail(keys))
            ELSE LET low == OrderBy(SelectSeq(rows, LAMBDA r : r[k.col] <= mid), keys)
                     high == OrderBy(SelectSeq(rows, LAMBDA r : r[k.col] > mid), keys)
                 IN IF k.asc THEN low \o high ELSE high \o low

Limit(rows) == SubSeq(rows, 1, IF Len(rows) < LIMIT THEN Len(rows) ELSE LIMIT)

\* Mutant: LIMIT applied before ORDER BY.
QueryLimitThenOrder(t, tie) == OrderBy(Limit(Surviving(t)), OrderByKeys \o tie)

\* The whole query, as the engine evaluates it with tie order `tie`.
Query(t, tie) == Limit(OrderBy(Surviving(t), OrderByKeys \o tie))

----------------------------------------------------------------------------
(* Source tables *)

\* A row of every user and year at one place, a second place for user 1 in
\* 2019, rows of user 1 with one column NULL, and a row whose location type
\* is neither 'H' nor 'W'.
RowDomain ==
    {SourceRow(u, y, 10, 20, t) : u \in UidValues, y \in YearValues, t \in {"H", "W"}}
    \cup {SourceRow(1, 2019, 11, 20, t) : t \in {"H", "W"}}
    \cup {SourceRow(1, NULL, 10, 20, t) : t \in {"H", "W"}}
    \cup {SourceRow(1, 2019, NULL, 20, t) : t \in {"H", "W"}}
    \cup {SourceRow(NULL, 2019, 10, 20, "H")}
    \cup {SourceRow(1, 2019, 10, NULL, "H")}
    \cup {SourceRow(1, 2019, 10, 20, "X")}

TypeRank(t) == CASE t = "H" -> 0 [] t = "W" -> 1 [] OTHER -> 2

\* An injective rank of the rows, to list every multiset of rows once.  The
\* stored order it gives runs against the query's order: later users and
\* later years first.
RowRank(r) ==
    ((((2 - r.uid) * 3000 + (2020 - r.year)) * 100 + (r.cluster_latitude + 1)) * 100
       + (r.cluster_longitude + 1)) * 3 + TypeRank(r.location_type)

RECURSIVE TablesOfLen(_)
\* The tables of n rows, each multiset of rows in one order (by rank).
TablesOfLen(n) ==
    IF n = 0 THEN { <<>> }
    ELSE UNION { {Append(s, r) :
                    r \in {q \in RowDomain :
                             s = <<>> \/ RowRank(s[Len(s)]) <= RowRank(q)}} :
                 s \in TablesOfLen(n - 1) }

RECURSIVE Tables(_)
Tables(n) == IF n = 0 THEN TablesOfLen(0) ELSE Tables(n - 1) \cup TablesOfLen(n)

----------------------------------------------------------------------------
(* The script *)

NoTable == [columns |-> <<>>, rows |-> <<>>]
NoListing == <<>>
ErrorKinds == {"SourceUnavailable", "QueryRejected"}

Init ==
    /\ table \in Tables(MaxRows)
    /\ pc = "read"
    /\ df = NoTable
    /\ listing = NoListing
    /\ submitted = 0
    /\ error = "none"

\* df = pd_gbq.read_gbq(query, ...) returns the result.
ReadGbq ==
    /\ pc = "read"
    /\ \E tie \in TieBreaks :
          df' = [columns |-> ColumnNames, rows |-> Query(table, tie)]
    /\ submitted' = submitted + 1
    /\ pc' = "columns"
    /\ UNCHANGED <<table, listing, error>>

\* Mutant: the exception is caught and the call is made again.
ReadGbqRaisesAndRetries(kind) ==
    /\ pc = "read"
    /\ submitted < 3
    /\ submitted' = submitted + 1
    /\ error' = kind
    /\ pc' = "read"
    /\ UNCHANGED <<table, df, listing>>

\* read_gbq raises; nothing catches it and the script ends.
ReadGbqRaises(kind) ==
    /\ pc = "read"
    /\ submitted' = submitted + 1
    /\ error' = kind
    /\ pc' = "failed"
    /\ UNCHANGED <<table, df, listing>>

\* list(df.columns)
ListColumns ==
    /\ pc = "columns"
    /\ listing' = df.columns
    /\ pc' = "done"
    /\ UNCHANGED <<table, df, submitted, error>>

Next ==
    \/ ReadGbq
    \/ \E kind \in ErrorKinds : ReadGbqRaises(kind)
    \/ ListColumns

Spec == Init /\ [][Next]_vars

----------------------------------------------------------------------------
(* Source tables with about LIMIT surviving rows *)

\* Most home coordinates of one user and year, most work coordinates.
LargeHome == 17
LargeWork == 32

HomeRows(u, n) == [i \in 1..n |-> SourceRow(u, 2019, i, 20, "H")]
WorkRows(u, n) == [i \in 1..n |-> SourceRow(u, 2019, i, 20, "W")]

\* User 1 with a homes and b works in 2019, user 2 with c homes and b works,
\* and a home of user 1 in 2020 with no work: (a + c) * b rows survive.
LargeTable(a, b, c) ==
    HomeRows(2, c) \o WorkRows(1, b) \o HomeRows(1, a) \o WorkRows(2, b)
      \o << SourceRow(1, 2020, 1, 20, "H") >>

LargeTables ==
    {LargeTable(a, b, c) :
        a \in (LargeHome - 2)..LargeHome, b \in (LargeWork - 2)..LargeWork,
        c \in (LargeHome - 2)..LargeHome}

InitLarge ==
    /\ table \in LargeTables
    /\ pc = "read"
    /\ df = NoTable
    /\ listing = NoListing
    /\ submitted = 0
    /\ error = "none"

SpecLarge == InitLarge /\ [][Next]_vars

----------------------------------------------------------------------------
(* Properties *)

RowsOf(seq) == {seq[i] : i \in 1..Len(seq)}

\* read_gbq has returned a table.
Returned == pc \in {"columns", "done"}

\* The source rows behind H and W.
HomeSource == {r \in RowsOf(table) : r.location_type = "H"}
WorkSource == {r \in RowsOf(table) : r.location_type = "W"}

\* Columns of an output row, by position in the select list.
OutUid(r) == r[1]
OutHomeLat(r) == r[2]
OutHomeLon(r) == r[3]
OutWorkLat(r) == r[4]
OutWorkLon(r) == r[5]
OutYear(r) == r[6]

\* C1 as stated: every output row has non-null uid, home_latitude,
\* home_longitude and work_latitude.
C1_AsStated ==
    Returned =>
        \A r \in RowsOf(df.rows) :
            /\ OutUid(r) # NULL
            /\ OutHomeLat(r) # NULL
            /\ OutHomeLon(r) # NULL
            /\ OutWorkLat(r) # NULL

\* C1, amended: every output row has non-null uid, home_latitude and
\* work_latitude (home_longitude is not filtered and may be null).
C1_FilteredColumnsNonNull ==
    Returned =>
        \A r \in RowsOf(df.rows) :
            /\ OutUid(r) # NULL
            /\ OutHomeLat(r) # NULL
            /\ OutWorkLat(r) # NULL

\* A home row with a null latitude was filtered out while another home row
\* of the same table reached the output.
C1_Witness ==
    /\ Returned
    /\ \E r \in HomeSource : r.cluster_latitude = NULL
    /\ \E r \in WorkSource : r.cluster_latitude # NULL
    /\ Len(df.rows) >= 1

\* C2: each output row's (uid, year) is the (uid, year) of a source row of
\* type 'H' carrying the row's home coordinates and of a source row of type
\* 'W' carrying its work coordinates.
C2_RowsComeFromHomeAndWork ==
    Returned =>
        \A r \in RowsOf(df.rows) :
            /\ \E h \in HomeSource :
                  /\ h.uid = OutUid(r) /\ h.year = OutYear(r)
                  /\ h.cluster_latitude = OutHomeLat(r)
                  /\ h.cluster_longitude = OutHomeLon(r)
            /\ \E w \in WorkSource :
                  /\ w.uid = OutUid(r) /\ w.year = OutYear(r)
                  /\ w.cluster_latitude = OutWorkLat(r)
                  /\ w.cluster_longitude = OutWorkLon(r)

\* An output row exists although the table also holds a work row of the same
\* user in another year.
C2_Witness ==
    /\ Returned
    /\ \E r \in RowsOf(df.rows) :
          \E w \in WorkSource : w.uid = OutUid(r) /\ w.year # OutYear(r) /\ w.year # NULL

\* An inner join of H and W on (uid, year): the pairs that satisfy the
\* condition, and nothing for an h without a match.
InnerJoin(H, W) ==
    LET scan == [n \in 1..(Len(H) * Len(W)) |->
                    [h |-> H[((n - 1) \div Len(W)) + 1], w |-> W[((n - 1) % Len(W)) + 1]]]
    IN SelectSeq(scan, LAMBDA p : p.h.uid # NULL /\ p.h.uid = p.w.uid
                                  /\ p.h.year # NULL /\ p.h.year = p.w.year)

InnerJoinThenFilter(H, W) ==
    LET kept == SelectSeq(InnerJoin(H, W),
                          LAMBDA p : /\ p.h.uid # NULL
                                     /\ p.h.home_latitude # NULL
                                     /\ p.w.work_latitude # NULL)
    IN {<<p.h.uid, p.h.home_latitude, p.h.home_longitude,
          p.w.work_latitude, p.w.work_longitude, p.h.year>> : p \in RowsOf(kept)}

\* C3: no output row comes from a home row without a work row of the same
\* uid and year, and the rows surviving the filter are those of an inner join
\* of H and W on (uid, year) followed by the same filter.
C3_LeftJoinActsAsInnerJoin ==
    /\ RowsOf(Surviving(table))
          = InnerJoinThenFilter(home_locations(table), work_locations(table))
    /\ Returned =>
          \A r \in RowsOf(df.rows) :
              \E w \in WorkSource : w.uid = OutUid(r) /\ w.year = OutYear(r)

\* A home row with non-null uid and latitude has no work row of its uid and
\* year, and another home row reached the output.
C3_Witness ==
    /\ Returned
    /\ Len(df.rows) >= 1
    /\ \E h \in HomeSource :
          /\ h.uid # NULL /\ h.cluster_latitude # NULL
          /\ \A w \in WorkSource : ~(w.uid = h.uid /\ w.year = h.year)

\* C4: the output is sorted by (uid, year) ascending.
C4_OutputSorted ==
    Returned =>
        \A i \in 1..Len(df.rows) : \A j \in (i + 1)..Len(df.rows) :
            \/ OutUid(df.rows[i]) < OutUid(df.rows[j])
            \/ /\ OutUid(df.rows[i]) = OutUid(df.rows[j])
               /\ OutYear(df.rows[i]) <= OutYear(df.rows[j])

\* Two output rows of different users, stored in the table in the opposite
\* order.
C4_Witness ==
    /\ Returned
    /\ Len(df.rows) >= 2
    /\ OutUid(df.rows[1]) < OutUid(df.rows[Len(df.rows)])
    /\ \E i, j \in 1..Len(table) :
          /\ i < j
          /\ table[i].location_type = "H" /\ table[j].location_type = "H"
          /\ table[i].uid = OutUid(df.rows[Len(df.rows)])
          /\ table[j].uid = OutUid(df.rows[1])

KeyLess(r, s) ==
    \/ OutUid(r) < OutUid(s)
    \/ OutUid(r) = OutUid(s) /\ OutYear(r) < OutYear(s)

\* C5: with n rows surviving the filter the output has min(n, 1000) rows, all
\* of them surviving rows, and no surviving row left out has a (uid, year)
\* smaller than that of a row in the output.
C5_FirstThousand ==
    Returned =>
        LET surviving == RowsOf(Surviving(table))
            n == Len(Surviving(table))
            out == RowsOf(df.rows)
        IN /\ Len(df.rows) = IF n < 1000 THEN n ELSE 1000
           /\ Cardinality(out) = Len(df.rows)
           /\ out \subseteq surviving
           /\ \A s \in surviving \ out : \A r \in out : ~KeyLess(s, r)

\* More than 1000 rows survive and 1000 are returned.
C5_Witness ==
    /\ Returned
    /\ Len(Surviving(table)) > 1000
    /\ Len(df.rows) = 1000

\* H and W hold at most one row per (uid, year) and no field is null.
C6_Precondition ==
    /\ \A r \in HomeSource \cup WorkSource :
          /\ r.uid # NULL /\ r.year # NULL
          /\ r.cluster_latitude # NULL /\ r.cluster_longitude # NULL
    /\ \A a, b \in HomeSource : a.uid = b.uid /\ a.year = b.year => a = b
    /\ \A a, b \in WorkSource : a.uid = b.uid /\ a.year = b.year => a = b

\* One row (uid, home_latitude, home_longitude, work_latitude, work_longitude,
\* year) for each (uid, year) present in both H and W.
C6_Expected ==
    {<<h.uid, h.cluster_latitude, h.cluster_longitude,
       w.cluster_latitude, w.cluster_longitude, h.year>> :
        <<h, w>> \in {p \in HomeSource \X WorkSource :
                       p[1].uid = p[2].uid /\ p[1].year = p[2].year}}

\* C6: with at most one row per (uid, year) in H and in W, no nulls and at
\* most 1000 matches, the output is exactly one row per matching (uid, year),
\* in the column order uid, home_latitude, home_longitude, work_latitude,
\* work_longitude, year.
C6_OneRowPerMatchingKey ==
    (Returned /\ C6_Precondition /\ Cardinality(C6_Expected) <= 1000) =>
        /\ df.columns = <<"uid", "home_latitude", "home_longitude",
                          "work_latitude", "work_longitude", "year">>
        /\ RowsOf(df.rows) = C6_Expected
        /\ Len(df.rows) = Cardinality(C6_Expected)
        /\ pc = "done" => listing = df.columns

\* One user with two years, each in both H and W: two output rows.
C6_Witness ==
    /\ pc = "done"
    /\ C6_Precondition
    /\ Len(df.rows) = 2
    /\ OutUid(df.rows[1]) = OutUid(df.rows[2])
    /\ OutYear(df.rows[1]) # OutYear(df.rows[2])
    /\ OutHomeLat(df.rows[1]) # OutWorkLat(df.rows[1])

\* C7: the query is submitted once; after SourceUnavailable or QueryRejected
\* the script has ended with no table and no column listing, and nothing
\* further happens.
C7_SingleAttemptErrorsTerminal ==
    /\ submitted <= 1
    /\ pc # "read" => submitted = 1
    /\ error \in ErrorKinds =>
          /\ pc = "failed"
          /\ df = NoTable
          /\ listing = NoListing
          /\ ~ENABLED Next
    /\ pc = "failed" => error \in ErrorKinds

C7_Witness == pc = "failed" /\ error = "QueryRejected" /\ submitted = 1

\* C8 as stated: H holds at most one row per (uid, year), and so does W.
C8_AsStated ==
    LET H == home_locations(table)
        W == work_locations(table)
    IN /\ \A i, j \in 1..Len(H) : H[i].uid = H[j].uid /\ H[i].year = H[j].year => i = j
       /\ \A i, j \in 1..Len(W) : W[i].uid = W[j].uid /\ W[i].year = W[j].year => i = j

\* C8, amended: H holds at most one row per (uid, year, home_latitude,
\* home_longitude) and W at most one per (uid, year, work_latitude,
\* work_longitude); every such tuple of the source is kept.
C8_DistinctRowsOnly ==
    LET H == home_locations(table)
        W == work_locations(table)
    IN /\ \A i, j \in 1..Len(H) : H[i] = H[j] => i = j
       /\ \A i, j \in 1..Len(W) : W[i] = W[j] => i = j
       /\ Len(H) = Cardinality(HomeSource)
       /\ Len(W) = Cardinality(WorkSource)

\* The table holds the same home row twice.
C8_Witness ==
    \E i, j \in 1..Len(table) :
        i # j /\ table[i] = table[j] /\ table[i].location_type = "H"

\* The distinct coordinates of the rows of type ty with uid u and year y.
Coordinates(ty, u, y) ==
    {<<r.cluster_latitude, r.cluster_longitude>> :
        r \in {q \in RowsOf(table) : q.location_type = ty /\ q.uid = u /\ q.year = y}}

CountRows(seq, u, y) ==
    Cardinality({i \in 1..Len(seq) : OutUid(seq[i]) = u /\ OutYear(seq[i]) = y})

\* C9: for a non-null (uid, year) with m distinct home coordinates and n
\* distinct work coordinates, all latitudes non-null, exactly m * n rows
\* survive, however many copies of a source row the table holds.
C9_RowsPerKeyMultiply ==
    \A u \in UidValues, y \in YearValues :
        (\A c \in Coordinates("H", u, y) \cup Coordinates("W", u, y) : c[1] # NULL) =>
            CountRows(Surviving(table), u, y)
                = Cardinality(Coordinates("H", u, y)) * Cardinality(Coordinates("W", u, y))

\* Two home coordinates and two work coordinates for one (uid, year): the
\* four combinations are returned.
C9_Witness ==
    /\ Returned
    /\ \E u \in UidValues, y \in YearValues :
          /\ Cardinality(Coordinates("H", u, y)) = 2
          /\ Cardinality(Coordinates("W", u, y)) = 2
          /\ CountRows(df.rows, u, y) = 4

\* C10: every output row has a non-null year.
C10_YearNonNull ==
    Returned => \A r \in RowsOf(df.rows) : OutYear(r) # NULL

\* A home row and a work row of the same user, both with a null year, beside
\* a pair that does reach the output.
C10_Witness ==
    /\ Returned
    /\ Len(df.rows) >= 1
    /\ \E h \in HomeSource : \E w \in WorkSource :
          /\ h.year = NULL /\ w.year = NULL
          /\ h.uid # NULL /\ h.uid = w.uid
          /\ h.cluster_latitude # NULL /\ w.cluster_latitude # NULL

====
